---- MODULE Spec2Model ----
(***************************************************************************)
(* Model of readers/postgres/messages.go: the PostgreSQL message reader.   *)
(* ReadAll builds a page query and a count query from a PageMetadata,      *)
(* dispatches them one after the other against a table that other clients  *)
(* write to, decodes the rows by format and returns a MessagesPage.         *)
(***************************************************************************)
EXTENDS Integers, Sequences, FiniteSets, TLC

VARIABLES
    db,        \* the rows of each table
    envOps,    \* inserts and deletes other clients have done
    deleted,   \* a row was deleted after the page query was dispatched
    pc,        \* where the call to ReadAll stands
    chanID,    \* ReadAll's first argument
    arg,       \* the PageMetadata the caller passed
    rpm,       \* ReadAll's copy of it
    q,         \* the query built last
    cursor,    \* what the open result set still holds
    open,      \* the result sets that are open
    opened,    \* the result sets that were ever opened
    deferred,  \* the deferred Close calls, the last one first
    page,      \* the page under construction
    ret,       \* what ReadAll returned
    condOut    \* what fmtCondition returned when called alone

vars == <<db, envOps, deleted, pc, chanID, arg, rpm, q, cursor, open, opened,
          deferred, page, ret, condOut>>

(* ------------------------------ bounds ------------------------------ *)

\* limit and offset of a request range over 0..MaxPage
MaxPage == 2
\* the time bounds from and to of a request range over 0..MaxTime
MaxTime == 3
\* number of inserts and deletes other clients perform during one call
MaxEnvOps == 2
\* number of filter fields a request given to fmtCondition alone may set
MaxFilters == 3

(* --------------------------- plain values --------------------------- *)

defTable == "messages"

errReadMessages == "failed to read messages from postgres database"

\* SQL NULL in a column
Null == "NULL"

\* An error value: the message on top and the cause under it
\* errors.Wrap(wrapper, err): the wrapper with err as its cause
Wrap(wrapper, err) == [wrapper |-> wrapper, cause |-> err]

\* An error of the driver or of a decoder, as it is reported
Plain(err) == [wrapper |-> "", cause |-> err]

\* The nil error
NoErr == [wrapper |-> "", cause |-> ""]

\* Causes reported by the driver, the scanner and encoding/json
ErrConn == "connection_failure"
ErrColumn == "undefined_column"
ErrScan == "scan_error"
ErrJSON == "invalid_json"

(* --------------------------- PageMetadata --------------------------- *)

\* The optional filter fields, by JSON tag, in the order of the switch
FilterNames == <<"subtopic", "publisher", "name", "protocol",
                 "v", "vb", "vs", "vd", "from", "to">>

FilterSet == {FilterNames[i] : i \in DOMAIN FilterNames}

\* readers.PageMetadata{}: every field at its zero value
ZeroMeta == [offset |-> 0, limit |-> 0, format |-> "", subtopic |-> "",
             publisher |-> "", name |-> "", protocol |-> "", v |-> 0,
             vb |-> FALSE, vs |-> "", vd |-> "", from |-> 0, to |-> 0]

\* A set value of each filter field
SetValue == [subtopic |-> "s1", publisher |-> "p1", name |-> "n1",
             protocol |-> "mqtt", v |-> 1, vb |-> TRUE, vs |-> "x",
             vd |-> "d", from |-> 1, to |-> 2]

\* A float64 that encoding/json cannot write (NaN, +Inf, -Inf)
NaN == -1

\* json.Marshal(rpm) returns an error: one of the float64 fields is not finite
MarshalFails(m) == m.v = NaN \/ m.from = NaN \/ m.to = NaN

\* json.Marshal(rpm) then json.Unmarshal into a map: the keys of the map.
\* offset and limit are always written; every other field is omitted at its
\* zero value.
MarshalKeys(m) ==
    {"offset", "limit"} \cup {k \in (DOMAIN m) \ {"offset", "limit"} : m[k] # ZeroMeta[k]}

(* --------------------------- fmtCondition --------------------------- *)

\* One AND clause: column, comparison, named parameter
Cl(col, op, param) == [col |-> col, op |-> op, param |-> param]

ChannelClause == Cl("channel", "=", "channel")

ClauseOfBadUpper(name) ==
    CASE name \in {"subtopic", "publisher", "name", "protocol"} -> Cl(name, "=", name)
      [] name = "v" -> Cl("value", "=", "value")
      [] name = "vb" -> Cl("bool_value", "=", "bool_value")
      [] name = "vs" -> Cl("string_value", "=", "string_value")
      [] name = "vd" -> Cl("data_value", "=", "data_value")
      [] name = "from" -> Cl("time", ">=", "from")
      [] name = "to" -> Cl("time", "<=", "to")

\* The switch of fmtCondition: the clause a key of the map appends
ClauseOf(name) ==
    CASE name \in {"subtopic", "publisher", "name", "protocol"} -> Cl(name, "=", name)
      [] name = "v" -> Cl("value", "=", "value")
      [] name = "vb" -> Cl("bool_value", "=", "bool_value")
      [] name = "vs" -> Cl("string_value", "=", "string_value")
      [] name = "vd" -> Cl("data_value", "=", "data_value")
      [] name = "from" -> Cl("time", ">=", "from")
      [] name = "to" -> Cl("time", "<", "to")

RECURSIVE Perms(_)
\* Every order in which the elements of S can be enumerated
Perms(S) ==
    IF S = {} THEN {<<>>}
    ELSE UNION {{<<x>> \o p : p \in Perms(S \ {x})} : x \in S}

\* The orders in which `for name := range query` can visit the keys that
\* match a case of the switch. Go leaves the iteration order of a map
\* unspecified; a key that matches no case leaves the condition unchanged,
\* so only the relative order of the matching keys shows in the result.
RangeOrders(m) == Perms(MarshalKeys(m) \cap FilterSet)

RECURSIVE AppendClauses(_, _)
AppendClauses(condition, names) ==
    IF names = <<>> THEN condition
    ELSE AppendClauses(Append(condition, ClauseOf(Head(names))), Tail(names))

fmtConditionDropsLast(m, order) ==
    IF MarshalFails(m) THEN <<ChannelClause>>
    ELSE AppendClauses(<<ChannelClause>>,
                       IF order = <<>> THEN order ELSE SubSeq(order, 1, Len(order) - 1))

\* fmtCondition(chanID, rpm) when the map is visited in `order`; the bare
\* channel condition when the request cannot be marshaled
fmtCondition(m, order) ==
    IF MarshalFails(m) THEN <<ChannelClause>>
    ELSE AppendClauses(<<ChannelClause>>, order)

(* ----------------------------- database ----------------------------- *)

Tables == {defTable, "json"}

\* Columns of the table of typed records and of a table of JSON records
Columns(table) ==
    IF table = defTable
    THEN {"id", "channel", "subtopic", "publisher", "protocol", "name", "value",
          "bool_value", "string_value", "data_value", "time", "created"}
    ELSE {"id", "channel", "created", "subtopic", "publisher", "protocol", "payload"}

MsgRow(id, ch, st, pub, t, cr) ==
    [id |-> id, channel |-> ch, subtopic |-> st, publisher |-> pub,
     protocol |-> "mqtt", name |-> "n1", value |-> 1, bool_value |-> FALSE,
     string_value |-> "", data_value |-> "", time |-> t, created |-> cr]

JsonRow(id, ch, st, pub, cr, pld) ==
    [id |-> id, channel |-> ch, created |-> cr, subtopic |-> st,
     publisher |-> pub, protocol |-> "mqtt", payload |-> pld]

\* Rows the tables hold in every run
InitialRows ==
    [t \in Tables |->
       IF t = defTable
       THEN {MsgRow("m1", "c1", "s1", "p1", 3, 1), MsgRow("m2", "c1", "s2", "p1", 1, 2),
             MsgRow("m3", "c1", "s1", "p1", 2, 3), MsgRow("m4", "c2", "s1", "p1", 2, 4)}
       ELSE {JsonRow("j1", "c1", "s1", "p1", 1, "{\"a\":1}"),
             JsonRow("j2", "c1", "s2", "p1", 2, "{\"a/b\":1}"),
             JsonRow("j3", "c2", "s1", "p1", 3, "{\"a\":1}")}]

\* Further rows: a row with a NULL publisher, a row with a malformed payload
ExtraRows ==
    [t \in Tables |->
       IF t = defTable
       THEN {MsgRow("m5", "c1", "s1", Null, 2, 5)}
       ELSE {JsonRow("j4", "c1", "s1", "p1", 4, "{bad"),
             JsonRow("j5", "c1", "s1", Null, 5, "{\"a\":1}")}]

\* The value a bound parameter is compared with, and the comparison
EvalClause(cl, row, params) ==
    LET x == row[cl.col]
        y == params[cl.param]
    IN CASE cl.op = "=" -> x = y
         [] cl.op = ">=" -> x >= y
         [] cl.op = "<" -> x < y
         [] cl.op = "<=" -> x <= y

\* Rows of the query's table its WHERE predicate selects
Matching(query, params) ==
    {r \in db[query.table] :
        \A i \in DOMAIN query.cond : EvalClause(query.cond[i], r, params)}

\* The engine rejects a query that names a table or a column it does not have
SQLError(query) ==
    \/ query.table \notin Tables
    \/ \E i \in DOMAIN query.cond : query.cond[i].col \notin Columns(query.table)
    \/ query.order # "" /\ query.order \notin Columns(query.table)

\* ORDER BY col DESC: every order of S that is non-increasing in col
OrderedDesc(S, col) ==
    {s \in Perms(S) : \A i, j \in DOMAIN s : i < j => s[i][col] >= s[j][col]}

Min(a, b) == IF a < b THEN a ELSE b

\* LIMIT :limit OFFSET :offset
LimitOffset(s, limit, offset) == SubSeq(s, offset + 1, Min(Len(s), offset + limit))

\* Result sets of SELECT * ... ORDER BY ... DESC LIMIT ... OFFSET ...
SelectResults(query, params) ==
    {IF query.paged THEN LimitOffset(s, params.limit, params.offset) ELSE s :
        s \in OrderedDesc(Matching(query, params), query.order)}

\* The single scalar of SELECT COUNT(*) ...
CountResult(query, params) == Cardinality(Matching(query, params))

(* ----------------------------- decoding ----------------------------- *)

\* Columns scanned into plain Go strings: a NULL there fails StructScan
ScanFails(row) ==
    \E c \in {"id", "channel", "subtopic", "publisher", "protocol"} : row[c] = Null

\* dbMessage.Message: the senml.Message part of a scanned row
TypedMessage(row) ==
    [type |-> "senml.Message",
     val |-> [c \in (DOMAIN row) \ {"id", "created"} |-> row[c]]]

\* json.Unmarshal of a payload column into a map
UnmarshalPayload(bytes) ==
    CASE bytes = "{\"a\":1}" -> [err |-> "", val |-> ("a" :> 1)]
      [] bytes = "{\"a/b\":1}" -> [err |-> "", val |-> ("a/b" :> 1)]
      [] OTHER -> [err |-> ErrJSON, val |-> <<>>]

\* strings.Split(key, "/") on the keys of the payloads above
SplitKey(key) == IF key = "a/b" THEN <<"a", "b">> ELSE <<key>>

\* jsont.ParseFlat: keys holding a path become nested mappings
ParseFlat(flat) ==
    LET heads == {SplitKey(k)[1] : k \in DOMAIN flat}
        under(h) == {k \in DOMAIN flat : Len(SplitKey(k)) = 2 /\ SplitKey(k)[1] = h}
    IN [h \in heads |->
          IF h \in DOMAIN flat THEN flat[h]
          ELSE LET ks == under(h)
               IN [s \in {SplitKey(k)[2] : k \in ks} |->
                     flat[CHOOSE k \in ks : SplitKey(k)[2] = s]]]

\* jsonMessage.toMap
toMap(msg) ==
    LET pld == UnmarshalPayload(msg.payload)
    IN IF pld.err # "" THEN [err |-> pld.err, val |-> <<>>]
       ELSE [err |-> "",
             val |-> [k \in {"id", "channel", "created", "subtopic", "publisher",
                              "protocol", "payload"} |->
                        IF k = "payload" THEN pld.val ELSE msg[k]]]

JSONMessageRawPayload(m) == [type |-> "map", val |-> m]

\* m["payload"] = jsont.ParseFlat(m["payload"]); the message appended
JSONMessage(m) ==
    [type |-> "map", val |-> [m EXCEPT !["payload"] = ParseFlat(m["payload"])]]

(* ------------------------------ ReadAll ------------------------------ *)

Channels == {"c1", "c2"}

Formats == {"", defTable, "json"}

\* PageMetadata values a caller passes to ReadAll (finite numbers)
Requests ==
    {[ZeroMeta EXCEPT !.format = f, !.subtopic = st, !.from = fr, !.to = to,
                      !.limit = l, !.offset = o] :
        f \in Formats, st \in {"", "s1"}, fr \in 0..MaxTime, to \in 0..MaxTime,
        l \in 0..MaxPage, o \in 0..MaxPage}

\* The requests of the runs in which other clients write to the tables
ConcRequests == {m \in Requests : m.from = 0 /\ m.to = 0}

\* Table contents a call can find
InitDBs ==
    {[t \in Tables |-> InitialRows[t] \cup (IF t = defTable THEN a ELSE b)] :
        a \in SUBSET ExtraRows[defTable], b \in SUBSET ExtraRows["json"]}

\* readers.MessagesPage{}
EmptyPage == [PageMetadata |-> ZeroMeta, Messages |-> <<>>, Total |-> 0]

OrderColumnSwapped(format) == IF format = "" THEN "created" ELSE "time"

\* order := "created"; if rpm.Format == "" { order = "time" }
OrderColumn(format) == IF format = "" THEN "time" ELSE "created"

\* if rpm.Format == "" { rpm.Format = defTable }
ResolveFormat(m) == IF m.format = "" THEN [m EXCEPT !.format = defTable] ELSE m

\* The named parameters bound to both queries
Params(ch, m) ==
    [channel |-> ch, limit |-> m.limit, offset |-> m.offset, subtopic |-> m.subtopic,
     publisher |-> m.publisher, name |-> m.name, protocol |-> m.protocol,
     value |-> m.v, bool_value |-> m.vb, string_value |-> m.vs,
     data_value |-> m.vd, from |-> m.from, to |-> m.to]

PageQueryUnlimited(m, order, mapOrder) ==
    [kind |-> "select", table |-> m.format, cond |-> fmtCondition(m, mapOrder),
     order |-> order, paged |-> FALSE]

\* SELECT * FROM table WHERE cond ORDER BY order DESC LIMIT :limit OFFSET :offset
PageQuery(m, order, mapOrder) ==
    [kind |-> "select", table |-> m.format, cond |-> fmtCondition(m, mapOrder),
     order |-> order, paged |-> TRUE]

CountQueryChannelOnly(m, mapOrder) ==
    [kind |-> "count", table |-> m.format, cond |-> <<ChannelClause>>,
     order |-> "", paged |-> FALSE]

\* SELECT COUNT(*) FROM table WHERE cond
CountQueryText(m, mapOrder) ==
    [kind |-> "count", table |-> m.format, cond |-> fmtCondition(m, mapOrder),
     order |-> "", paged |-> FALSE]

DeferCloseForgotten(stack, c) == stack

\* defer rows.Close(): the cursor is bound when the defer statement runs
DeferClose(stack, c) == <<c>> \o stack

Range(s) == {s[i] : i \in DOMAIN s}

\* return p, e: the deferred Close calls run and the call is over
Return(p, e, stack) ==
    /\ ret' = [page |-> p, err |-> e]
    /\ open' = open \ Range(stack)
    /\ pc' = "done"

\* NamedQuery fails when the connection does or when the engine rejects the query
DispatchError(connOK, query) ==
    IF ~connOK THEN ErrConn ELSE IF SQLError(query) THEN ErrColumn ELSE ""

\* Lines 40-76: the order column, the table, the page query and its dispatch
ReadAllPageQuery(requests) ==
    /\ pc = "idle"
    /\ \E ch \in Channels, m \in requests, connOK \in BOOLEAN :
         LET order == OrderColumn(m.format)
             r == ResolveFormat(m)
         IN \E mapOrder \in RangeOrders(r) :
              LET query == PageQuery(r, order, mapOrder)
                  e == DispatchError(connOK, query)
              IN /\ chanID' = ch
                 /\ arg' = m
                 /\ rpm' = r
                 /\ q' = query
                 /\ deleted' = FALSE
                 /\ IF e # ""
                    THEN /\ Return(EmptyPage, Wrap(errReadMessages, e), deferred)
                         /\ UNCHANGED <<cursor, opened, deferred, page>>
                    ELSE /\ \E rows \in SelectResults(query, Params(ch, r)) :
                              cursor' = rows
                         /\ open' = open \cup {1}
                         /\ opened' = opened \cup {1}
                         /\ deferred' = DeferClose(deferred, 1)
                         /\ page' = [PageMetadata |-> r, Messages |-> <<>>, Total |-> 0]
                         /\ pc' = "scan"
                         /\ UNCHANGED ret
    /\ UNCHANGED <<db, envOps, condOut>>

\* Lines 78-86: one turn of the loop that decodes typed rows. The driver is
\* taken to deliver every row of the result set before rows.Next() is false.
DecodeTypedRow ==
    /\ pc = "scan"
    /\ cursor # <<>>
    /\ rpm.format = defTable
    /\ IF ScanFails(Head(cursor))
       THEN /\ Return(EmptyPage, Wrap(errReadMessages, ErrScan), deferred)
            /\ UNCHANGED <<cursor, page>>
       ELSE /\ page' = [page EXCEPT !.Messages = Append(@, TypedMessage(Head(cursor)))]
            /\ cursor' = Tail(cursor)
            /\ UNCHANGED <<ret, open, pc>>
    /\ UNCHANGED <<db, envOps, chanID, arg, rpm, q, opened, deferred, deleted, condOut>>

\* Lines 87-99: one turn of the loop that decodes JSON rows
DecodeJSONRow ==
    /\ pc = "scan"
    /\ cursor # <<>>
    /\ rpm.format # defTable
    /\ IF ScanFails(Head(cursor))
       THEN /\ Return(EmptyPage, Wrap(errReadMessages, ErrScan), deferred)
            /\ UNCHANGED <<cursor, page>>
       ELSE LET m == toMap(Head(cursor))
            IN IF m.err # ""
               THEN /\ Return(EmptyPage, Wrap(errReadMessages, m.err), deferred)
                    /\ UNCHANGED <<cursor, page>>
               ELSE /\ page' = [page EXCEPT !.Messages = Append(@, JSONMessage(m.val))]
                    /\ cursor' = Tail(cursor)
                    /\ UNCHANGED <<ret, open, pc>>
    /\ UNCHANGED <<db, envOps, chanID, arg, rpm, q, opened, deferred, deleted, condOut>>

\* Lines 103-108: rows.Next() is false, the count query is built and dispatched
CountQuery ==
    /\ pc = "scan"
    /\ cursor = <<>>
    /\ \E connOK \in BOOLEAN, mapOrder \in RangeOrders(rpm) :
         LET query == CountQueryText(rpm, mapOrder)
             e == DispatchError(connOK, query)
         IN /\ q' = query
            /\ IF e # ""
               THEN /\ Return(EmptyPage, Wrap(errReadMessages, e), deferred)
                    /\ UNCHANGED <<cursor, opened, deferred>>
               ELSE /\ cursor' = <<CountResult(query, Params(chanID, rpm))>>
                    /\ open' = open \cup {2}
                    /\ opened' = opened \cup {2}
                    /\ deferred' = DeferClose(deferred, 2)
                    /\ pc' = "cscan"
                    /\ UNCHANGED ret
    /\ UNCHANGED <<db, envOps, chanID, arg, rpm, page, deleted, condOut>>

\* Lines 110-118: the scalar of the count is scanned and the page returned.
\* SELECT COUNT(*) yields one row, so rows.Next() is true here.
CountScan ==
    /\ pc = "cscan"
    /\ \E scanOK \in BOOLEAN :
         IF scanOK
         THEN Return([page EXCEPT !.Total = Head(cursor)], NoErr, deferred)
         ELSE Return(page, Plain(ErrScan), deferred)
    /\ UNCHANGED <<db, envOps, chanID, arg, rpm, q, cursor, opened, deferred, page,
                   deleted, condOut>>

(* --------------------------- other clients --------------------------- *)

\* Another client inserts a row before the count query is dispatched
Insert ==
    /\ pc \in {"idle", "scan"}
    /\ envOps < MaxEnvOps
    /\ \E t \in Tables :
         \E r \in (InitialRows[t] \cup ExtraRows[t]) \ db[t] :
            db' = [db EXCEPT ![t] = @ \cup {r}]
    /\ envOps' = envOps + 1
    /\ UNCHANGED <<deleted, pc, chanID, arg, rpm, q, cursor, open, opened, deferred,
                   page, ret, condOut>>

\* Another client deletes a row before the count query is dispatched
Delete ==
    /\ pc \in {"idle", "scan"}
    /\ envOps < MaxEnvOps
    /\ \E t \in Tables :
         \E r \in db[t] : db' = [db EXCEPT ![t] = @ \ {r}]
    /\ envOps' = envOps + 1
    /\ deleted' = (deleted \/ pc = "scan")
    /\ UNCHANGED <<pc, chanID, arg, rpm, q, cursor, open, opened, deferred, page, ret,
                   condOut>>

\* A call by a caller whose table no other client writes to meanwhile
Call == ReadAllPageQuery(Requests)

\* A call while other clients write
CallConc == ReadAllPageQuery(ConcRequests)

InitCall ==
    /\ envOps = 0
    /\ deleted = FALSE
    /\ pc = "idle"
    /\ chanID = ""
    /\ arg = ZeroMeta
    /\ rpm = ZeroMeta
    /\ q = [kind |-> "", table |-> "", cond |-> <<>>, order |-> "", paged |-> FALSE]
    /\ cursor = <<>>
    /\ open = {}
    /\ opened = {}
    /\ deferred = <<>>
    /\ page = EmptyPage
    /\ ret = [page |-> EmptyPage, err |-> NoErr]
    /\ condOut = <<>>

Init == db \in InitDBs /\ InitCall

Next ==
    \/ Call
    \/ DecodeTypedRow
    \/ DecodeJSONRow
    \/ CountQuery
    \/ CountScan

\* One call to ReadAll on a table nobody else writes to
Spec == Init /\ [][Next]_vars

InitConc == db = InitialRows /\ InitCall

NextConc ==
    \/ CallConc
    \/ DecodeTypedRow
    \/ DecodeJSONRow
    \/ CountQuery
    \/ CountScan
    \/ Insert
    \/ Delete

\* One call to ReadAll while other clients insert and delete rows
SpecConc == InitConc /\ [][NextConc]_vars

(* ------------------------ fmtCondition alone ------------------------ *)

\* The PageMetadata in which exactly the filter fields of F are set
MetaWith(F, f) ==
    [k \in DOMAIN ZeroMeta |->
       IF k \in F THEN SetValue[k] ELSE IF k = "format" THEN f ELSE ZeroMeta[k]]

FiniteCondRequests ==
    {MetaWith(F, f) : F \in {G \in SUBSET FilterSet : Cardinality(G) <= MaxFilters},
                      f \in {"", "json"}}

\* The requests given to fmtCondition alone, a NaN value filter among them
CondRequests ==
    FiniteCondRequests \cup {[m EXCEPT !.v = NaN] : m \in {r \in FiniteCondRequests : r.v # 0}}

\* fmtCondition(chanID, rpm) called on its own
FmtConditionCall ==
    /\ pc = "cond"
    /\ \E mapOrder \in RangeOrders(arg) : condOut' = fmtCondition(arg, mapOrder)
    /\ pc' = "built"
    /\ UNCHANGED <<db, envOps, deleted, chanID, arg, rpm, q, cursor, open, opened,
                   deferred, page, ret>>

InitCond ==
    /\ db = InitialRows
    /\ envOps = 0
    /\ deleted = FALSE
    /\ pc = "cond"
    /\ chanID \in Channels
    /\ arg \in CondRequests
    /\ rpm = ZeroMeta
    /\ q = [kind |-> "", table |-> "", cond |-> <<>>, order |-> "", paged |-> FALSE]
    /\ cursor = <<>>
    /\ open = {}
    /\ opened = {}
    /\ deferred = <<>>
    /\ page = EmptyPage
    /\ ret = [page |-> EmptyPage, err |-> NoErr]
    /\ condOut = <<>>

NextCond == FmtConditionCall

\* Calls to the condition builder
SpecCond == InitCond /\ [][NextCond]_vars

(* ------------------------------ claims ------------------------------ *)

Returned == pc = "done"

Succeeded == pc = "done" /\ ret.err = NoErr

Failed == pc = "done" /\ ret.err # NoErr

Msgs == ret.page.Messages

\* The table a request reads
TableOf(m) == IF m.format = "" THEN defTable ELSE m.format

\* Non-increasing in column col
Descending(msgs, col) ==
    \A i, j \in DOMAIN msgs : i < j => msgs[i].val[col] >= msgs[j].val[col]

\* C1 as stated: the page query orders by created when the request has no
\* format and by time when it has one.
C1_OrderAsClaimed ==
    q.kind = "select" => q.order = (IF arg.format = "" THEN "created" ELSE "time")

\* C1 amended: the page query orders by time descending when the request has
\* no format and by created descending when it has one, and the pages read
\* from the typed table without a format and from a JSON table come in that
\* order.
C1_OrderByFormat ==
    /\ q.kind = "select" =>
          q.order = (IF arg.format = "" THEN "time" ELSE "created")
    /\ Succeeded /\ arg.format = "" => Descending(Msgs, "time")
    /\ Succeeded /\ arg.format = "json" => Descending(Msgs, "created")

C1_Witness ==
    /\ Succeeded
    /\ arg.format = ""
    /\ Len(Msgs) = 2
    /\ Msgs[1].val.time = 3
    /\ Msgs[2].val.time = 2

\* C2: whenever ReadAll returns an error, the page it returns holds no
\* messages.
C2_NoPartialPage == Failed => ret.page.Messages = <<>>

\* C3: every error ReadAll returns is a cause wrapped under errReadMessages.
C3_AlwaysWrapped == Failed => ret.err.wrapper = errReadMessages /\ ret.err.cause # ""

\* The time range of the request, a bound of zero being absent
InRange(t) == (arg.from # 0 => t >= arg.from) /\ (arg.to # 0 => t < arg.to)

\* The rows of the table that match the channel and the filters of the request
MatchingRows ==
    {r \in db[TableOf(arg)] :
        /\ r.channel = chanID
        /\ arg.subtopic # "" => r.subtopic = arg.subtopic
        /\ (arg.from # 0 \/ arg.to # 0) => InRange(r.time)}

Max(a, b) == IF a > b THEN a ELSE b

PresentFilters(m) == SelectSeq(FilterNames, LAMBDA n : m[n] # ZeroMeta[n])

\* The clause the claim gives each filter field
ExpectedClause(n) ==
    CASE n = "subtopic" -> Cl("subtopic", "=", "subtopic")
      [] n = "publisher" -> Cl("publisher", "=", "publisher")
      [] n = "name" -> Cl("name", "=", "name")
      [] n = "protocol" -> Cl("protocol", "=", "protocol")
      [] n = "v" -> Cl("value", "=", "value")
      [] n = "vb" -> Cl("bool_value", "=", "bool_value")
      [] n = "vs" -> Cl("string_value", "=", "string_value")
      [] n = "vd" -> Cl("data_value", "=", "data_value")
      [] n = "from" -> Cl("time", ">=", "from")
      [] n = "to" -> Cl("time", "<", "to")

ExpectedInOrder(m) ==
    LET present == PresentFilters(m)
    IN <<ChannelClause>> \o [i \in 1..Len(present) |-> ExpectedClause(present[i])]

\* C6 as stated: the predicate is channel = :channel followed by one clause
\* for each filter field present, in the fixed order of the filter fields.
C6_FixedOrder == condOut # <<>> => condOut = ExpectedInOrder(arg)

\* C6 amended: the predicate starts with channel = :channel and AND-combines
\* exactly one clause for each filter field present and none for an absent
\* one; the clauses come in the order the map is iterated in, which is not
\* fixed. A request that cannot be marshaled has no field present.
C6_ExactlyThePresent ==
    condOut # <<>> =>
        LET present == IF arg.v = NaN THEN <<>> ELSE PresentFilters(arg)
        IN /\ condOut[1] = ChannelClause
           /\ Len(condOut) = 1 + Len(present)
           /\ {condOut[i] : i \in 2..Len(condOut)} =
                 {ExpectedClause(present[i]) : i \in 1..Len(present)}

C6_Witness ==
    /\ Len(condOut) = 3
    /\ condOut # ExpectedInOrder(arg)
    /\ condOut[2] = Cl("time", "<", "to")
    /\ condOut[3] = Cl("subtopic", "=", "subtopic")

\* C7: the page a successful ReadAll returns carries the PageMetadata the
\* caller passed, Format included.
C7_EchoesInput == Succeeded => ret.page.PageMetadata = arg

\* The payload sub-mapping of each payload column
ExpectedPayload(bytes) ==
    IF bytes = "{\"a/b\":1}" THEN ("a" :> ("b" :> 1)) ELSE ("a" :> 1)

\* C8: a page read from the default table holds typed records only, and a
\* page read with any other format holds only mappings with the keys id,
\* channel, created, subtopic, publisher, protocol and payload, the payload
\* being the transformed decoded payload of the row.
C8_DecoderByFormat ==
    Succeeded =>
        \A i \in DOMAIN Msgs :
            IF arg.format \in {"", defTable}
            THEN /\ Msgs[i].type = "senml.Message"
                 /\ "payload" \notin DOMAIN Msgs[i].val
            ELSE /\ Msgs[i].type = "map"
                 /\ DOMAIN Msgs[i].val = {"id", "channel", "created", "subtopic",
                                          "publisher", "protocol", "payload"}
                 /\ \E r \in db[arg.format] :
                       /\ r.id = Msgs[i].val["id"]
                       /\ Msgs[i].val["payload"] = ExpectedPayload(r.payload)

C8_Witness ==
    /\ Succeeded
    /\ arg.format = "json"
    /\ Len(Msgs) = 2
    /\ Msgs[1].val["payload"] = ("a" :> ("b" :> 1))
    /\ Msgs[2].val["payload"] = ("a" :> 1)

C10_CursorsClosed == Returned => open = {}

C10_Witness == Failed /\ opened = {1, 2} /\ open = {}

====
